---------------------------- MODULE Spec2Model ----------------------------
(***************************************************************************)
(* Model of the prediction endpoint of custom-vertex-deployment:           *)
(* api/api.py (predict, process_single_instance) with the storage adapter  *)
(* api/gcs.py and the processing script src/model.py as its environment.   *)
(*                                                                         *)
(* Python strings are sequences of atoms.  A path is spelled character by  *)
(* character, so that startswith, basename and splitext are computed the   *)
(* way the interpreter computes them; a fixed piece of message text is one *)
(* atom.                                                                   *)
(***************************************************************************)
EXTENDS Naturals, Sequences, FiniteSets

\* Largest number of instances of one batch body.
MaxInstances == 2

----------------------------------------------------------------------------
\* Python values and strings

StrVal(s) == [t |-> "str", v |-> s]
NoneVal == [t |-> "none", v |-> <<>>]
IntVal == [t |-> "int", v |-> <<"7">>]

IsStr(x) == x.t = "str"

\* str(x) inside an f-string
PyStr(x) == IF x.t = "none" THEN <<"None">> ELSE x.v

\* "gs://"
GsPrefix == <<"g", "s", ":", "/", "/">>

\* s.startswith(p)
StartsWith(s, p) == Len(s) >= Len(p) /\ SubSeq(s, 1, Len(p)) = p

\* s.rfind(c), 1-based, 0 when c does not occur
RFind(s, c) ==
    LET at == {i \in 1..Len(s) : s[i] = c}
    IN IF at = {} THEN 0 ELSE CHOOSE i \in at : \A j \in at : j <= i

\* os.path.basename(p)
Basename(p) == SubSeq(p, RFind(p, "/") + 1, Len(p))

\* os.path.splitext(p)[0]: the last dot splits only when it lies in the last
\* component and some character other than a dot precedes it there.
SplitextRoot(p) ==
    LET sepIndex == RFind(p, "/")
        dotIndex == RFind(p, ".")
    IN IF dotIndex > sepIndex
          /\ \E k \in (sepIndex + 1)..(dotIndex - 1) : p[k] # "."
       THEN SubSeq(p, 1, dotIndex - 1)
       ELSE p

LowerChar(c) ==
    CASE c = "T" -> "t"
      [] c = "R" -> "r"
      [] c = "U" -> "u"
      [] c = "E" -> "e"
      [] OTHER -> c

\* s.lower()
Lower(s) == [i \in 1..Len(s) |-> LowerChar(s[i])]

\* s contains t as a contiguous piece
Contains(s, t) ==
    \E i \in 1..(Len(s) + 1) :
        i + Len(t) - 1 <= Len(s) /\ SubSeq(s, i, i + Len(t) - 1) = t

----------------------------------------------------------------------------
\* Requests

\* process_single_instance: request.get("input_video_path", <this>)
DefaultInput == <<"g", "s", ":", "/", "/", "t", "e", "s", "t", "-", "b", "u", "c", "k", "e", "t", "/", "t", "e", "s", "t", ".", "t", "x", "t">>

\* process_single_instance: request.get("output_gcs_path", <this>)
DefaultOutput == <<"g", "s", ":", "/", "/", "t", "e", "s", "t", "-", "b", "u", "c", "k", "e", "t", "/", "o", "u", "t", "p", "u", "t">>

InVideo == <<"g", "s", ":", "/", "/", "b", "/", "v", ".", "m", "p", "4">>
InDir == <<"g", "s", ":", "/", "/", "b", "/", "d", "/">>
InDotted == <<"g", "s", ":", "/", "/", "b", "/", "a", ".", "b", ".", "c">>
InHidden == <<"g", "s", ":", "/", "/", "b", "/", ".", "h">>
InLocal == <<"/", "d", "/", "x", ".", "t", "x", "t">>
InEmpty == << >>
OutGcs == <<"g", "s", ":", "/", "/", "b", "/", "o", "u", "t">>
OutLocal == <<"/", "o", "u", "t">>
OutBucket == <<"g", "s", ":", "/", "/", "b">>

\* A field left out of the request dict.
Absent == [t |-> "absent", v |-> << >>]

InputChoices ==
    {Absent, NoneVal, IntVal} \cup
    {StrVal(s) : s \in {InVideo, InDir, InDotted, InHidden, InLocal, InEmpty}}

OutputChoices ==
    {Absent, NoneVal, StrVal(OutGcs), StrVal(OutLocal), StrVal(OutBucket)}

\* A request dict holding the fields that are not Absent.
MkDict(i, o) ==
    [kind |-> "dict",
     d |-> [k \in (IF i = Absent THEN {} ELSE {"input_video_path"}) \cup
                  (IF o = Absent THEN {} ELSE {"output_gcs_path"})
            |-> IF k = "input_video_path" THEN i ELSE o]]

\* A request that is no dict (a string, a number, a list, null).
NonDict == [kind |-> "other", d |-> << >>]

Requests == {MkDict(i, o) : i \in InputChoices, o \in OutputChoices} \cup {NonDict}

\* The instances a batch body is built from: a well-formed request, one whose
\* input is no gs:// reference, and one that is no dict.
BatchRequests ==
    {MkDict(StrVal(InVideo), StrVal(OutGcs)),
     MkDict(StrVal(InLocal), StrVal(OutGcs)),
     NonDict}

BatchBodies ==
    UNION {[1..n -> BatchRequests] : n \in 0..MaxInstances}

\* Bodies of POST /predict: {"instances": [...]}, {"instances": null},
\* {"instances": 7}, or anything else (handled as one instance).
Bodies ==
    {[kind |-> "batch", instances |-> l, single |-> NonDict] : l \in BatchBodies} \cup
    {[kind |-> "batch_none", instances |-> << >>, single |-> NonDict],
     [kind |-> "batch_int", instances |-> << >>, single |-> NonDict]} \cup
    {[kind |-> "single", instances |-> << >>, single |-> r] : r \in Requests}

\* Batches of two instances that share one outputRef: two well-formed requests
\* with different inputRefs and one whose input is no gs:// reference.
SameOutputRequests ==
    {MkDict(StrVal(InVideo), StrVal(OutGcs)),
     MkDict(StrVal(InDotted), StrVal(OutGcs)),
     MkDict(StrVal(InLocal), StrVal(OutGcs))}

SameOutputBodies ==
    {[kind |-> "batch", instances |-> <<a, b>>, single |-> NonDict] :
        a \in SameOutputRequests, b \in SameOutputRequests} \cup
    {[kind |-> "single", instances |-> << >>, single |-> r] : r \in Requests}

\* Values of the environment variable VERTEX_TEST_MODE (unset, or a string).
EnvUnset == [set |-> FALSE, v |-> << >>]
EnvValues ==
    {EnvUnset,
     [set |-> TRUE, v |-> <<"t", "r", "u", "e">>],
     [set |-> TRUE, v |-> <<"T", "r", "u", "e">>],
     [set |-> TRUE, v |-> <<"1">>]}

StderrTexts == {<<"decode failed">>, << >>}

----------------------------------------------------------------------------
\* process_single_instance: the pieces that compute values

\* Variant: a missing key yields None (request.get(key) without a default)
GetField_NoDefault(d, key, default) == IF key \in DOMAIN d THEN d[key] ELSE NoneVal

\* request.get(key, default)
GetField(d, key, default) == IF key \in DOMAIN d THEN d[key] ELSE default

\* os.path.exists(input_path) is the environment's answer; the empty path
\* never exists.
LocalPathMayExist(p) == p # << >>

\* Variant: the extension is kept (basename without splitext)
SequenceName_KeepExtension(input_path, exists) ==
    IF (~StartsWith(input_path, GsPrefix) /\ exists) \/ StartsWith(input_path, GsPrefix)
    THEN Basename(input_path)
    ELSE <<"test_sequence">>

\* Variant: no fallback name for a path that is neither local nor gs://
SequenceName_NoFallback(input_path, exists) == SplitextRoot(Basename(input_path))

\* sequence_name (api.py 136-144)
SequenceName(input_path, exists) ==
    IF ~StartsWith(input_path, GsPrefix) /\ exists
    THEN SplitextRoot(Basename(input_path))
    ELSE IF StartsWith(input_path, GsPrefix)
         THEN SplitextRoot(Basename(input_path))
         ELSE <<"test_sequence">>

\* tempfile.TemporaryDirectory(): the directory's path
TempDir == <<"/tmp/tmpdir">>

\* os.path.join(temp_dir, name) for a name without a leading slash
Join(dir, name) == dir \o <<"/">> \o name

\* local_input_path (api.py 154)
LocalInputPath(input_path) ==
    Join(TempDir, IF input_path # << >> THEN Basename(input_path) ELSE <<"input_file">>)

\* local_output_dir (api.py 155)
LocalOutputDir == Join(TempDir, <<"o", "u", "t", "p", "u", "t">>)

\* The local input path names a directory of the workspace: the workspace
\* itself ("", "."), its parent (".."), or the output directory made at 156.
\* Opening such a path for writing raises IsADirectoryError.
IsExistingDirectory(local_input_path) ==
    Basename(local_input_path) \in
        {<< >>, <<".">>, <<".", ".">>, Basename(LocalOutputDir)}

\* os.getenv("VERTEX_TEST_MODE", "false").lower() == "true" (api.py 175)
TestModeOn(e) ==
    Lower(IF e.set THEN e.v ELSE <<"f", "a", "l", "s", "e">>) = <<"t", "r", "u", "e">>

\* Message templates of the three error returns
InputTemplate == <<"Error with input preparation: ">>
UploadTemplate == <<"Model processed successfully but failed to upload results: ">>
ModelTemplate == <<"Error occurred during model execution: ">>

\* api.py 185-190
InputErrorResult(e, input_path, output_path) ==
    [status |-> "error",
     message |-> InputTemplate \o e,
     input_path |-> input_path,
     output_path |-> output_path]

\* Variant: the upload failure falls through to the handler at 238
UploadErrorResult_AsModelError(e, input_path, local_output_dir) ==
    [status |-> "error",
     message |-> ModelTemplate \o e,
     input_path |-> input_path,
     local_output_path |-> StrVal(local_output_dir)]

\* api.py 225-230
UploadErrorResult(e, input_path, local_output_dir) ==
    [status |-> "error",
     message |-> UploadTemplate \o e,
     input_path |-> input_path,
     local_output_path |-> StrVal(local_output_dir)]

\* f"{output_path}/{sequence_name}" (api.py 236, 247)
ReportedOutput(output_path, sequence_name) ==
    StrVal(PyStr(output_path) \o <<"/">> \o sequence_name)

\* api.py 234-237
SuccessResult(output_path, sequence_name) ==
    [status |-> "success",
     output_path |-> ReportedOutput(output_path, sequence_name)]

\* api.py 243-248
ModelErrorResult(e, input_path, output_path, sequence_name) ==
    [status |-> "error",
     message |-> ModelTemplate \o e,
     input_path |-> input_path,
     output_path |-> ReportedOutput(output_path, sequence_name)]

\* Variant: the outermost handler lets the exception through
OuterHandler_Reraise(e) == [status |-> "raised", error |-> e]

\* api.py 250-254: the outermost handler
OuterHandler(e) == [status |-> "error", error |-> e]

\* Texts of the exceptions (str(e))
NoGetError == <<"object has no attribute 'get'">>
NoStartswithError == <<"object has no attribute 'startswith'">>
SchemeError == <<"Input path must start with gs://">>
StorageError == <<"storage error">>
SpawnError == <<"[Errno 2] No such file or directory: 'python'">>
NoLenError == <<"object of type 'int' has no len()">>
EmptyDownloadError(input_path) ==
    <<"Failed to download file from ">> \o input_path \o
    <<" - file is empty or doesn't exist">>
DownloadError(e) == <<"Failed to download from GCS: ">> \o e
IsADirectoryError(path) == <<"[Errno 21] Is a directory: ">> \o path
\* Variant: the error text leaves the captured stderr out
ProcessError_NoStderr(stderr) == <<"Failed to process input">>
ProcessError(stderr) == <<"Failed to process input: ">> \o stderr

----------------------------------------------------------------------------
\* State

VARIABLES
    env,        \* VERTEX_TEST_MODE of the server process
    pc,         \* where the request handler stands
    body,       \* the body of the POST /predict being served
    idx,        \* predict: position of the instance being processed
    results,    \* predict: the results list
    response,   \* the response of the request served last
    frame,      \* process_single_instance: its local variables, and what
                \* os.path.exists(input_path) answered (path_exists)
    workspace,  \* the temporary directory of the running call and its content
    calls,      \* calls made to the storage adapter and the processing step
    ret         \* what process_single_instance hands to its caller

vars == <<env, pc, body, idx, results, response, frame, workspace, calls, ret>>

NoBody == [kind |-> "none", instances |-> << >>, single |-> NonDict]
NoResponse == [none |-> TRUE]
NoResult == [status |-> "none"]
NoFrame ==
    [input_path |-> NoneVal, output_path |-> NoneVal, path_exists |-> FALSE,
     sequence_name |-> << >>, local_input_path |-> << >>, local_output_dir |-> << >>]
NoWorkspace ==
    [exists |-> FALSE, input_file |-> "absent", output_dir |-> FALSE, out_files |-> {}]

\* The instance process_single_instance is running on.
CurrentRequest == IF body.kind = "single" THEN body.single ELSE body.instances[idx]

Init ==
    /\ env \in EnvValues
    /\ pc = "idle"
    /\ body = NoBody
    /\ idx = 1
    /\ results = << >>
    /\ response = NoResponse
    /\ frame = NoFrame
    /\ workspace = NoWorkspace
    /\ calls = << >>
    /\ ret = NoResult

----------------------------------------------------------------------------
\* predict (api.py 69-101): entry

Predict(b) ==
    /\ pc = "idle"
    /\ body' = b
    /\ idx' = 1
    /\ results' = << >>
    /\ calls' = << >>
    /\ ret' = NoResult
    /\ frame' = NoFrame
    /\ IF b.kind = "batch_int"
       THEN \* len(instances) raises inside the handler's try (79, 97-101)
            /\ response' = [error |-> NoLenError]
            /\ pc' = "responded"
       ELSE IF b.kind = "batch_none" \/ (b.kind = "batch" /\ b.instances = << >>)
       THEN \* if not instances (81-82)
            /\ response' = [predictions |-> << >>]
            /\ pc' = "responded"
       ELSE /\ response' = NoResponse
            /\ pc' = "call"
    /\ UNCHANGED <<env, workspace>>

----------------------------------------------------------------------------
\* process_single_instance (api.py 114-254)

\* 125-158: read the request, name the sequence, make the workspace
Enter ==
    /\ pc = "call"
    /\ LET req == CurrentRequest IN
       IF req.kind # "dict"
       THEN /\ ret' = OuterHandler(NoGetError)
            /\ pc' = "return"
            /\ frame' = NoFrame
            /\ UNCHANGED workspace
       ELSE LET input_path == GetField(req.d, "input_video_path", StrVal(DefaultInput))
                output_path == GetField(req.d, "output_gcs_path", StrVal(DefaultOutput))
            IN IF ~IsStr(input_path)
               THEN /\ ret' = OuterHandler(NoStartswithError)
                    /\ pc' = "return"
                    /\ frame' = NoFrame
                    /\ UNCHANGED workspace
               ELSE \E exists \in
                        (IF StartsWith(input_path.v, GsPrefix)
                            \/ ~LocalPathMayExist(input_path.v)
                         THEN {FALSE} ELSE BOOLEAN) :
                    /\ frame' =
                         [input_path |-> input_path,
                          output_path |-> output_path,
                          path_exists |-> exists,
                          sequence_name |-> SequenceName(input_path.v, exists),
                          local_input_path |-> LocalInputPath(input_path.v),
                          local_output_dir |-> LocalOutputDir]
                    /\ workspace' =
                         [exists |-> TRUE, input_file |-> "absent",
                          output_dir |-> TRUE, out_files |-> {}]
                    /\ pc' = "stage"
                    /\ UNCHANGED ret
    /\ UNCHANGED <<env, body, idx, results, response, calls>>

\* 181-190: an input path that is no gs:// reference
StageNonGcs ==
    /\ pc = "stage"
    /\ ~StartsWith(frame.input_path.v, GsPrefix)
    /\ ret' = InputErrorResult(SchemeError, frame.input_path, frame.output_path)
    /\ pc' = "exit_with"
    /\ UNCHANGED <<env, body, idx, results, response, frame, workspace, calls>>

\* gcs.py 18-40: what download_from_gcs can do.  It opens the local path for
\* writing, so it raises when that path is a directory.
FetchOutcomes(local_input_path) ==
    IF IsExistingDirectory(local_input_path)
    THEN {"raise"}
    ELSE {"ok_data", "ok_empty", "ok_missing", "raise"}

\* The local input file after the fetch
FetchedFile(outcome) ==
    CASE outcome = "ok_data" -> "data"
      [] outcome = "ok_empty" -> "empty"
      [] OTHER -> "absent"

\* 166: not os.path.exists(p) or os.path.getsize(p) == 0
DownloadUnusable(file) == file \in {"absent", "empty"}

\* 164-168: what reaches the handler at 169 (<< >> when nothing is raised)
DownloadException(outcome, input_path) ==
    IF outcome = "raise" THEN StorageError
    ELSE IF DownloadUnusable(FetchedFile(outcome)) THEN EmptyDownloadError(input_path)
    ELSE << >>

\* 162-190: fetch, verify, and the handlers
Fetch(outcome) ==
    /\ pc = "stage"
    /\ StartsWith(frame.input_path.v, GsPrefix)
    /\ outcome \in FetchOutcomes(frame.local_input_path)
    /\ calls' = Append(calls,
                       [op |-> "fetch", run |-> idx, outcome |-> outcome,
                        arg |-> frame.input_path.v, file |-> "absent",
                        stderr |-> << >>, files |-> {}, keys |-> {}])
    /\ LET e == DownloadException(outcome, frame.input_path.v) IN
       IF e = << >>
       THEN /\ workspace' = [workspace EXCEPT !.input_file = FetchedFile(outcome)]
            /\ pc' = "infer"
            /\ UNCHANGED ret
       ELSE IF TestModeOn(env)
       THEN IF IsExistingDirectory(frame.local_input_path)
            THEN \* open(local_input_path, 'w') raises; caught at 183
                 /\ ret' = InputErrorResult(IsADirectoryError(frame.local_input_path),
                                            frame.input_path, frame.output_path)
                 /\ pc' = "exit_with"
                 /\ UNCHANGED workspace
            ELSE /\ workspace' = [workspace EXCEPT !.input_file = "placeholder"]
                 /\ pc' = "infer"
                 /\ UNCHANGED ret
       ELSE /\ ret' = InputErrorResult(DownloadError(e),
                                       frame.input_path, frame.output_path)
            /\ workspace' = [workspace EXCEPT !.input_file = FetchedFile(outcome)]
            /\ pc' = "exit_with"
    /\ UNCHANGED <<env, body, idx, results, response, frame>>

\* src/model.py and subprocess.run: the processing step exits 0 having written
\* its output file, exits 0 without it (model.py 35-38), exits non-zero with
\* some stderr, or cannot be started.
SpawnOutcomes ==
    {[kind |-> "exit0", files |-> {"simulated_output.txt"}, stderr |-> << >>],
     [kind |-> "exit0", files |-> {}, stderr |-> << >>],
     [kind |-> "raise", files |-> {}, stderr |-> << >>]} \cup
    {[kind |-> "nonzero", files |-> {}, stderr |-> t] : t \in StderrTexts}

\* 216: output_path.startswith("gs://") decides whether to upload
WantsUpload(output_path) == StartsWith(output_path.v, GsPrefix)

\* 193-216 and 232-248: run the processing step
Spawn(outcome) ==
    /\ pc = "infer"
    /\ calls' = Append(calls,
                       [op |-> "spawn", run |-> idx, outcome |-> outcome.kind,
                        arg |-> frame.local_input_path,
                        file |-> workspace.input_file,
                        stderr |-> outcome.stderr, files |-> {}, keys |-> {}])
    /\ IF outcome.kind = "raise"
       THEN /\ ret' = ModelErrorResult(SpawnError, frame.input_path,
                                       frame.output_path, frame.sequence_name)
            /\ pc' = "exit_with"
            /\ UNCHANGED workspace
       ELSE IF outcome.kind = "nonzero"
       THEN /\ ret' = ModelErrorResult(ProcessError(outcome.stderr), frame.input_path,
                                       frame.output_path, frame.sequence_name)
            /\ pc' = "exit_with"
            /\ UNCHANGED workspace
       ELSE /\ workspace' = [workspace EXCEPT !.out_files = outcome.files]
            /\ IF ~IsStr(frame.output_path)
               THEN \* output_path.startswith raises; caught at 238
                    /\ ret' = ModelErrorResult(NoStartswithError, frame.input_path,
                                               frame.output_path, frame.sequence_name)
                    /\ pc' = "exit_with"
               ELSE IF WantsUpload(frame.output_path)
               THEN /\ pc' = "upload"
                    /\ UNCHANGED ret
               ELSE /\ ret' = SuccessResult(frame.output_path, frame.sequence_name)
                    /\ pc' = "exit_with"
    /\ UNCHANGED <<env, body, idx, results, response, frame>>

\* The position of the n-th "/" of s, 0 when s has fewer
SlashAt(s, n) ==
    LET at == {i \in 1..Len(s) :
                  s[i] = "/" /\ Cardinality({j \in 1..i : s[j] = "/"}) = n}
    IN IF at = {} THEN 0 ELSE CHOOSE i \in at : TRUE

\* gcs.py 13: gcs_path.split("/")[2]
ParseBucket(gcs_path) ==
    LET from == SlashAt(gcs_path, 2)
        to == SlashAt(gcs_path, 3)
    IN SubSeq(gcs_path, from + 1, IF to = 0 THEN Len(gcs_path) ELSE to - 1)

\* gcs.py 14: "/".join(gcs_path.split("/")[3:])
ParsePrefix(gcs_path) ==
    LET third == SlashAt(gcs_path, 3)
    IN IF third = 0 THEN << >> ELSE SubSeq(gcs_path, third + 1, Len(gcs_path))

\* os.path.relpath(local_file_path, local_path) of a file the processing
\* step wrote into the output directory
RelPath(file) ==
    CASE file = "simulated_output.txt" -> <<"s", "i", "m", "u", "l", "a", "t", "e", "d", "_", "o", "u", "t", "p", "u", "t", ".", "t", "x", "t">>
      [] OTHER -> <<file>>

\* gcs.py 65: f"{prefix}/{rel_path}" if prefix else rel_path
GcsFilePath(prefix, rel_path) ==
    IF prefix # << >> THEN prefix \o <<"/">> \o rel_path ELSE rel_path

\* gcs.py 43-75: the objects upload_to_gcs writes for the given local files
UploadedObjects(gcs_path, files) ==
    IF ~StartsWith(gcs_path, GsPrefix)
    THEN {}
    ELSE {[bucket |-> ParseBucket(gcs_path),
           key |-> GcsFilePath(ParsePrefix(gcs_path), RelPath(f))] : f \in files}

\* Variant: the results are uploaded under the reported output path
StoreDestination_UnderSequence(output_path, sequence_name) ==
    output_path \o <<"/">> \o sequence_name

\* api.py 219: gcs_path=output_path
StoreDestination(output_path, sequence_name) == output_path

\* 217-237: upload the output directory.  A store that raises has uploaded
\* some of the files, never all of them (gcs.py 59-68: no rollback).
Store(outcome) ==
    /\ pc = "upload"
    /\ \E uploaded \in SUBSET workspace.out_files :
         /\ outcome = "ok" => uploaded = workspace.out_files
         /\ outcome = "raise" => (uploaded # workspace.out_files \/ uploaded = {})
         /\ LET dest == StoreDestination(frame.output_path.v, frame.sequence_name) IN
            calls' = Append(calls,
                            [op |-> "store", run |-> idx, outcome |-> outcome,
                             arg |-> dest, file |-> "absent", stderr |-> << >>,
                             files |-> uploaded,
                             keys |-> UploadedObjects(dest, uploaded)])
    /\ ret' = IF outcome = "raise"
              THEN UploadErrorResult(StorageError, frame.input_path,
                                     frame.local_output_dir)
              ELSE SuccessResult(frame.output_path, frame.sequence_name)
    /\ pc' = "exit_with"
    /\ UNCHANGED <<env, body, idx, results, response, frame, workspace>>

\* Variant: the directory is made with mkdtemp and never removed
TempDirExit_Leak(ws) == ws

\* TemporaryDirectory.__exit__: the directory and its content are removed
TempDirExit(ws) == NoWorkspace

\* 150: leaving the with block on a return
ExitWith ==
    /\ pc = "exit_with"
    /\ workspace' = TempDirExit(workspace)
    /\ pc' = "return"
    /\ UNCHANGED <<env, body, idx, results, response, frame, calls, ret>>

----------------------------------------------------------------------------
\* predict (api.py 84-101): the caller takes the result

\* Variant: the loop stops at the first instance whose result is an error
LoopDone_StopOnError(i, instances, result) ==
    i = Len(instances) \/ result.status = "error"

\* 85: the for loop is over once the last instance is done
LoopDone(i, instances, result) == i = Len(instances)

Return ==
    /\ pc = "return"
    /\ IF ret.status = "raised"
       THEN \* 97-101: an exception out of the pipeline
            /\ response' = [error |-> ret.error]
            /\ pc' = "responded"
            /\ UNCHANGED <<idx, results>>
       ELSE IF body.kind = "single"
       THEN \* 94-95
            /\ response' = ret
            /\ pc' = "responded"
            /\ UNCHANGED <<idx, results>>
       ELSE \* 86-89
            /\ results' = Append(results, ret)
            /\ IF LoopDone(idx, body.instances, ret)
               THEN /\ response' = [predictions |-> results']
                    /\ pc' = "responded"
                    /\ UNCHANGED idx
               ELSE /\ idx' = idx + 1
                    /\ pc' = "call"
                    /\ UNCHANGED response
    /\ UNCHANGED <<env, body, frame, workspace, calls, ret>>

\* The response is sent and the handler's locals are gone; the server waits
\* for the next request.
Respond ==
    /\ pc = "responded"
    /\ pc' = "idle"
    /\ body' = NoBody
    /\ idx' = 1
    /\ results' = << >>
    /\ response' = NoResponse
    /\ frame' = NoFrame
    /\ calls' = << >>
    /\ ret' = NoResult
    /\ UNCHANGED <<env, workspace>>

Next ==
    \/ \E b \in Bodies : Predict(b)
    \/ Enter
    \/ StageNonGcs
    \/ \E o \in {"ok_data", "ok_empty", "ok_missing", "raise"} : Fetch(o)
    \/ \E o \in SpawnOutcomes : Spawn(o)
    \/ \E o \in {"ok", "raise"} : Store(o)
    \/ ExitWith
    \/ Return
    \/ Respond

Spec == Init /\ [][Next]_vars

\* The same server, asked for single instances and for pairs of instances
\* that share one outputRef.
NextSameOutput ==
    \/ \E b \in SameOutputBodies : Predict(b)
    \/ Enter
    \/ StageNonGcs
    \/ \E o \in {"ok_data", "ok_empty", "ok_missing", "raise"} : Fetch(o)
    \/ \E o \in SpawnOutcomes : Spawn(o)
    \/ \E o \in {"ok", "raise"} : Store(o)
    \/ ExitWith
    \/ Return
    \/ Respond

SpecSameOutput == Init /\ [][NextSameOutput]_vars

----------------------------------------------------------------------------
\* Properties

\* Positions of the calls of kind op made by the running (or just returned)
\* call of process_single_instance.
RunCalls(op) == {k \in 1..Len(calls) : calls[k].run = idx /\ calls[k].op = op}

\* The running call has returned to predict.
Returned == pc = "return"

\* The running call made a workspace.
MadeWorkspace == frame # NoFrame

\* The run processed its input and, where it had to, stored the output.
RunSucceeded ==
    /\ \E k \in RunCalls("spawn") : calls[k].outcome = "exit0"
    /\ \A k \in RunCalls("store") : calls[k].outcome = "ok"
    /\ IsStr(frame.output_path)

\* C1: process_single_instance never raises to its caller: whatever the
\* request and whatever fetch, the processing step and store do, it returns a
\* result whose status is "success" or "error", and a run that failed
\* anywhere returns status "error".
C1_NeverRaises ==
    Returned =>
        /\ ret.status \in {"success", "error"}
        /\ ~RunSucceeded => ret.status = "error"

\* A request that is no dict has been answered with an error result.
C1_Witness ==
    /\ Returned
    /\ CurrentRequest.kind = "other"
    /\ ret.status = "error"

\* C2: once a call that made a workspace has returned, on whichever path,
\* the workspace directory and everything in it are gone.
C2_WorkspaceRemoved ==
    (pc \notin {"stage", "infer", "upload", "exit_with"} /\ MadeWorkspace) =>
        /\ ~workspace.exists
        /\ ~workspace.output_dir
        /\ workspace.input_file = "absent"
        /\ workspace.out_files = {}

\* A run whose upload failed, leaving output files in the workspace, has
\* returned.
C2_Witness ==
    /\ Returned
    /\ MadeWorkspace
    /\ \E k \in RunCalls("spawn") : calls[k].outcome = "exit0"
    /\ \E k \in RunCalls("store") : calls[k].outcome = "raise"
    /\ ret.status = "error"

\* The calls made for instance i of the batch.
InstanceCalls(i, op) == {k \in 1..Len(calls) : calls[k].run = i /\ calls[k].op = op}

\* The inputRef and outputRef of a request dict: the field, or its default.
RequestInput(r) ==
    IF "input_video_path" \in DOMAIN r.d
    THEN r.d["input_video_path"] ELSE StrVal(DefaultInput)
RequestOutput(r) ==
    IF "output_gcs_path" \in DOMAIN r.d
    THEN r.d["output_gcs_path"] ELSE StrVal(DefaultOutput)

\* Result p is what the pipeline yields for request r, given the calls made
\* for instance i.
ResultOfInstance(p, r, i) ==
    IF r.kind # "dict"
    THEN p = [status |-> "error", error |-> NoGetError]
    ELSE /\ "input_path" \in DOMAIN p => p.input_path = RequestInput(r)
         /\ p.status = "success" <=>
              /\ \E k \in InstanceCalls(i, "spawn") : calls[k].outcome = "exit0"
              /\ \A k \in InstanceCalls(i, "store") : calls[k].outcome = "ok"
         /\ (IsStr(RequestInput(r)) /\ StartsWith(RequestInput(r).v, GsPrefix)) =>
              InstanceCalls(i, "fetch") # {}

\* C3: a body {instances: [r1..rN]} is answered {predictions: [p1..pN]} with
\* pi the result of the pipeline on ri; instances are processed one at a time
\* in array order, and an error result does not keep a later instance from
\* being processed and reported.  N = 0 is answered {predictions: []}.
C3_BatchInOrder ==
    (pc = "responded" /\ body.kind = "batch") =>
        /\ DOMAIN response = {"predictions"}
        /\ Len(response.predictions) = Len(body.instances)
        /\ \A i \in 1..Len(body.instances) :
               ResultOfInstance(response.predictions[i], body.instances[i], i)
        /\ \A k, l \in 1..Len(calls) : k < l => calls[k].run <= calls[l].run

\* A batch of two whose first instance failed and whose second succeeded.
C3_Witness ==
    /\ pc = "responded"
    /\ body.kind = "batch"
    /\ Len(body.instances) = 2
    /\ response.predictions[1].status = "error"
    /\ response.predictions[2].status = "success"

\* The request of the running call is a dict whose inputRef is a string.
HasInputRef == CurrentRequest.kind = "dict" /\ IsStr(RequestInput(CurrentRequest))

\* The base filename of a reference with its extension stripped.
BaseNameNoExt(ref) ==
    LET base == SubSeq(ref, RFind(ref, "/") + 1, Len(ref))
        dot == RFind(base, ".")
    IN IF dot > 1 /\ \E k \in 1..(dot - 1) : base[k] # "."
       THEN SubSeq(base, 1, dot - 1)
       ELSE base

\* C4: when input staging succeeds, the processing step exits 0, and output
\* staging succeeds or is skipped because outputRef is no gs:// reference (no
\* store call is made then), the result is exactly {status: "success",
\* output_path: outputRef + "/" + sequenceName}, sequenceName being the base
\* filename of inputRef without its extension.
C4_SuccessOutputPath ==
    (Returned /\ HasInputRef /\ IsStr(RequestOutput(CurrentRequest))) =>
        LET inputRef == RequestInput(CurrentRequest).v
            outputRef == RequestOutput(CurrentRequest).v
            skipped == ~StartsWith(outputRef, GsPrefix)
        IN /\ skipped => RunCalls("store") = {}
           /\ ( /\ \E k \in RunCalls("spawn") : calls[k].outcome = "exit0"
                /\ \/ skipped
                   \/ \E k \in RunCalls("store") : calls[k].outcome = "ok" )
              => ret = [status |-> "success",
                        output_path |->
                            StrVal(outputRef \o <<"/">> \o BaseNameNoExt(inputRef))]

\* gs://b/v.mp4 stored to gs://b/out is reported as gs://b/out/v.
C4_Witness ==
    /\ Returned
    /\ HasInputRef
    /\ RequestInput(CurrentRequest).v = InVideo
    /\ \E k \in RunCalls("store") : calls[k].outcome = "ok"
    /\ ret = [status |-> "success",
              output_path |-> StrVal(<<"g", "s", ":", "/", "/", "b", "/", "o", "u", "t", "/", "v">>)]

\* C5: when the processing step returns a non-zero exit code, the result has
\* status "error", its message contains the captured stderr unchanged, and no
\* store call is made in that run.
C5_NonZeroExit ==
    Returned =>
        \A k \in RunCalls("spawn") :
            calls[k].outcome = "nonzero" =>
                /\ ret.status = "error"
                /\ "message" \in DOMAIN ret
                /\ Len(ret.message) >= Len(calls[k].stderr)
                /\ SubSeq(ret.message, Len(ret.message) - Len(calls[k].stderr) + 1,
                          Len(ret.message)) = calls[k].stderr
                /\ Contains(ret.message, calls[k].stderr)
                /\ RunCalls("store") = {}

\* The processing step failed with stderr "decode failed".
C5_Witness ==
    /\ Returned
    /\ \E k \in RunCalls("spawn") :
           calls[k].outcome = "nonzero" /\ calls[k].stderr = <<"decode failed">>
    /\ ret.status = "error"
    /\ Contains(ret.message, <<"decode failed">>)

C7_Defaults ==
    (Returned /\ CurrentRequest.kind = "dict" /\ DOMAIN CurrentRequest.d = {}) =>
        LET inRef == StrVal(<<"g", "s", ":", "/", "/", "t", "e", "s", "t", "-", "b", "u", "c", "k", "e", "t", "/", "t", "e", "s", "t", ".", "t", "x", "t">>)
            outRef == StrVal(<<"g", "s", ":", "/", "/", "t", "e", "s", "t", "-", "b", "u", "c", "k", "e", "t", "/", "o", "u", "t", "p", "u", "t">>)
            outName == StrVal(<<"g", "s", ":", "/", "/", "t", "e", "s", "t", "-", "b", "u", "c", "k", "e", "t", "/", "o", "u", "t", "p", "u", "t", "/", "t", "e", "s", "t">>)
        IN /\ frame.input_path = inRef
           /\ frame.output_path = outRef
           /\ \A k \in RunCalls("fetch") : calls[k].arg = inRef.v
           /\ \A k \in RunCalls("store") : calls[k].arg = outRef.v
           /\ ret.status \in {"success", "error"}
           /\ ret.status = "success" => ret.output_path = outName
           /\ ret.status = "error" =>
                /\ "input_path" \in DOMAIN ret
                /\ ret.input_path = inRef
                /\ "output_path" \in DOMAIN ret => ret.output_path \in {outRef, outName}
                /\ "output_path" \notin DOMAIN ret =>
                       RunCalls("store") # {} /\ "local_output_path" \in DOMAIN ret

\* The empty dict ran on the defaults and succeeded.
C7_Witness ==
    /\ Returned
    /\ CurrentRequest.kind = "dict"
    /\ DOMAIN CurrentRequest.d = {}
    /\ RunCalls("store") # {}
    /\ ret.status = "success"

\* The result is an InputError result for the request of the running call.
IsInputError(r) ==
    /\ DOMAIN r = {"status", "message", "input_path", "output_path"}
    /\ r.status = "error"
    /\ StartsWith(r.message, InputTemplate)
    /\ r.input_path = RequestInput(CurrentRequest)
    /\ r.output_path = RequestOutput(CurrentRequest)

\* C8: when fetch raises for a gs:// inputRef: with VERTEX_TEST_MODE equal to
\* "true" in any letter case a placeholder file is written at the local input
\* path and the processing step is invoked; with any other value the run
\* returns an InputError result at once and neither the processing step nor
\* store is invoked.
C8_FetchRaises ==
    (Returned /\ \E k \in RunCalls("fetch") : calls[k].outcome = "raise") =>
        IF env.set /\ Lower(env.v) = <<"t", "r", "u", "e">>
        THEN \E k \in RunCalls("spawn") : calls[k].file = "placeholder"
        ELSE /\ IsInputError(ret)
             /\ RunCalls("spawn") = {}
             /\ RunCalls("store") = {}

\* C9: after a fetch that returns without error, a local input file that is
\* missing or empty makes the pipeline fail with InputError at once, without
\* invoking the processing step, whatever the test-mode flag.
C9_EmptyDownload ==
    (Returned /\ \E k \in RunCalls("fetch") :
                     calls[k].outcome \in {"ok_empty", "ok_missing"}) =>
        /\ IsInputError(ret)
        /\ RunCalls("spawn") = {}

\* What does hold of the fetch-failure handler: C8_FetchRaises for every run
\* whose local input path names no directory, and C9_EmptyDownload for every
\* run with the test mode off.
FetchFailureHandled ==
    Returned =>
        /\ ~IsExistingDirectory(frame.local_input_path) => C8_FetchRaises
        /\ ~TestModeOn(env) => C9_EmptyDownload

\* No two of the three message templates begin alike.
TemplatesDiffer ==
    \A t, u \in {InputTemplate, UploadTemplate, ModelTemplate} :
        t # u => ~StartsWith(t, u)

\* C10: when the processing step exits 0 and store raises for a gs://
\* outputRef, the result has status "error" and a message saying that
\* processing succeeded but the upload failed; input-staging failures and
\* processing failures use other templates, so the message alone tells the
\* three kinds apart.
C10_UploadErrorDistinct ==
    (Returned /\ ret.status = "error" /\ MadeWorkspace) =>
        /\ TemplatesDiffer
        /\ "message" \in DOMAIN ret
        /\ (\E k \in RunCalls("store") : calls[k].outcome = "raise")
               <=> StartsWith(ret.message, UploadTemplate)
        /\ RunCalls("spawn") = {} <=> StartsWith(ret.message, InputTemplate)
        /\ (\E k \in RunCalls("spawn") : calls[k].outcome \in {"nonzero", "raise"})
               => StartsWith(ret.message, ModelTemplate)

\* Processing exited 0, the upload to a gs:// outputRef failed, and the
\* result says so.
C10_Witness ==
    /\ Returned
    /\ \E k \in RunCalls("spawn") : calls[k].outcome = "exit0"
    /\ \E k \in RunCalls("store") :
           calls[k].outcome = "raise" /\ StartsWith(calls[k].arg, GsPrefix)
    /\ ret.status = "error"
    /\ ret.message = UploadTemplate \o StorageError

\* The request of instance i of the body being served.
RequestOfRun(i) == IF body.kind = "single" THEN body.single ELSE body.instances[i]

\* The gs:// name of a stored object.
ObjectName(o) == GsPrefix \o o.bucket \o <<"/">> \o o.key

\* The store calls made while serving the body.
StoreCalls == {k \in 1..Len(calls) : calls[k].op = "store"}

\* C11: in every run that reaches output staging with a gs:// outputRef the
\* destination of the store call is exactly outputRef, whatever sequenceName
\* is: each uploaded object is named by outputRef followed by the file's path
\* relative to the local output directory, none lies under the reported
\* output_path outputRef/sequenceName, and two runs with one outputRef and
\* different inputRefs write the same keys.
C11_StoreDestination ==
    /\ \A k \in StoreCalls :
         LET r == RequestOfRun(calls[k].run)
             outputRef == RequestOutput(r).v
             sequenceName == BaseNameNoExt(RequestInput(r).v)
         IN /\ StartsWith(outputRef, GsPrefix)
            /\ calls[k].arg = outputRef
            /\ Cardinality(calls[k].keys) = Cardinality(calls[k].files)
            /\ \A o \in calls[k].keys :
                 /\ \E f \in calls[k].files :
                        ObjectName(o) = outputRef \o <<"/">> \o RelPath(f)
                 /\ ~StartsWith(ObjectName(o),
                                outputRef \o <<"/">> \o sequenceName \o <<"/">>)
    /\ \A k, l \in StoreCalls :
         ( /\ RequestOutput(RequestOfRun(calls[k].run))
                = RequestOutput(RequestOfRun(calls[l].run))
           /\ calls[k].files = calls[l].files )
         => calls[k].keys = calls[l].keys

\* Two runs of one batch, gs://b/v.mp4 and gs://b/a.b.c, both stored their
\* output file to gs://b/out and wrote the same key.
C11_Witness ==
    /\ pc = "responded"
    /\ body.kind = "batch"
    /\ \E k, l \in StoreCalls :
         /\ calls[k].run = 1
         /\ calls[l].run = 2
         /\ RequestInput(RequestOfRun(1)) # RequestInput(RequestOfRun(2))
         /\ calls[k].outcome = "ok"
         /\ calls[l].outcome = "ok"
         /\ calls[k].keys # {}
         /\ calls[k].keys = calls[l].keys
    /\ response.predictions[1].output_path # response.predictions[2].output_path

=============================================================================
